---- MODULE Spec2Model ----
(***************************************************************************)
(* A model of view-logs/generate_mjai_html.py: the MJAI log HTML           *)
(* generator.  Text (file names, paths, patterns, file contents) is        *)
(* modelled as sequences of one-character strings, so that find, replace,  *)
(* endswith, strip and slicing are computed as Python computes them.       *)
(* The filesystem is a function from paths to file contents.               *)
(***************************************************************************)
EXTENDS Integers, Sequences, FiniteSets, TLC

(***************************************************************************)
(* Bounds of the model.                                                    *)
(***************************************************************************)
\* the largest number of archives placed in the input directory
MaxFiles == 3
\* the largest number of raw lines of an archive in SpecExtract
MaxLines == 3

(***************************************************************************)
(* Python values.                                                          *)
(***************************************************************************)
\* Python's None, and a present value, for results that are "a value or None"
None == [none |-> TRUE, val |-> <<>>]
Some(v) == [none |-> FALSE, val |-> v]

\* s.endswith(suffix)
EndsWith(s, suffix) ==
    /\ Len(suffix) <= Len(s)
    /\ SubSeq(s, Len(s) - Len(suffix) + 1, Len(s)) = suffix

\* s[i:].startswith(sub), i a 0-based position
OccursAt(s, sub, i) ==
    /\ i + Len(sub) <= Len(s)
    /\ SubSeq(s, i + 1, i + Len(sub)) = sub

\* s.find(sub): the 0-based position of the first occurrence, or -1
Find(s, sub) ==
    LET hits == {i \in 0..Len(s) : OccursAt(s, sub, i)}
    IN  IF hits = {} THEN -1
        ELSE CHOOSE i \in hits : \A j \in hits : i <= j

\* s.replace(old, new): every non-overlapping occurrence, left to right
RECURSIVE Replace(_, _, _)
Replace(s, old, new) ==
    LET p == Find(s, old)
    IN  IF p = -1 THEN s
        ELSE SubSeq(s, 1, p) \o new
             \o Replace(SubSeq(s, p + Len(old) + 1, Len(s)), old, new)

\* s[:n] and s[n:] with Python's treatment of negative and oversized n
SliceTo(s, n) ==
    IF n >= 0 THEN SubSeq(s, 1, IF n < Len(s) THEN n ELSE Len(s))
    ELSE SubSeq(s, 1, Len(s) + n)
SliceFrom(s, n) ==
    IF n >= 0 THEN SubSeq(s, n + 1, Len(s))
    ELSE SubSeq(s, (IF Len(s) + n > 0 THEN Len(s) + n ELSE 0) + 1, Len(s))

\* the characters str.strip() removes that occur in the model's texts
IsSpace(c) == c \in {" ", "\t", "\r", "\n"}

\* s.strip()
RECURSIVE LStrip(_)
LStrip(s) == IF s # <<>> /\ IsSpace(Head(s)) THEN LStrip(Tail(s)) ELSE s
RECURSIVE RStrip(_)
RStrip(s) ==
    IF s # <<>> /\ IsSpace(s[Len(s)]) THEN RStrip(SubSeq(s, 1, Len(s) - 1)) ELSE s
Strip(s) == RStrip(LStrip(s))

\* iterating a text file: the lines of the text, each with its line ending
RECURSIVE FileLines(_)
FileLines(text) ==
    IF text = <<>> THEN <<>>
    ELSE LET p == Find(text, <<"\n">>)
         IN  IF p = -1 THEN <<text>>
             ELSE <<SubSeq(text, 1, p + 1)>>
                  \o FileLines(SubSeq(text, p + 2, Len(text)))

\* '\n'.join(lines)
RECURSIVE JoinNl(_)
JoinNl(lines) ==
    IF lines = <<>> THEN <<>>
    ELSE IF Len(lines) = 1 THEN lines[1]
    ELSE lines[1] \o <<"\n">> \o JoinNl(Tail(lines))

(***************************************************************************)
(* json.loads on the fragment of JSON the model's lines are written in:    *)
(* arrays and the digit 1, with JSON whitespace.  ScanOnce returns the     *)
(* 1-based index after the value that starts at index i; 0 where the       *)
(* decoder raises JSONDecodeError; -1 where it raises RecursionError,      *)
(* which it does on entering an array nested deeper than the interpreter's *)
(* recursion limit.                                                        *)
(***************************************************************************)
\* the interpreter's recursion limit (1000 frames by default), scaled to the
\* lines of the model: arrays may nest this deep
RecursionLimit == 2

RECURSIVE SkipWs(_, _)
SkipWs(s, i) == IF i <= Len(s) /\ IsSpace(s[i]) THEN SkipWs(s, i + 1) ELSE i

RECURSIVE ScanDigits(_, _)
ScanDigits(s, i) == IF i <= Len(s) /\ s[i] = "1" THEN ScanDigits(s, i + 1) ELSE i

RECURSIVE ScanOnce(_, _, _)
RECURSIVE ScanArrayItems(_, _, _)
ScanOnce(s, i, depth) ==
    IF i > Len(s) THEN 0
    ELSE IF s[i] = "["
         THEN IF depth >= RecursionLimit THEN -1
              ELSE LET j == SkipWs(s, i + 1)
                   IN  IF j <= Len(s) /\ s[j] = "]" THEN j + 1
                       ELSE ScanArrayItems(s, j, depth + 1)
    ELSE IF s[i] = "1" THEN ScanDigits(s, i + 1)
    ELSE 0
ScanArrayItems(s, j, depth) ==
    LET e == ScanOnce(s, j, depth)
    IN  IF e <= 0 THEN e
        ELSE LET k == SkipWs(s, e)
             IN  IF k > Len(s) THEN 0
                 ELSE IF s[k] = "]" THEN k + 1
                 ELSE IF s[k] # "," THEN 0
                 ELSE ScanArrayItems(s, SkipWs(s, k + 1), depth)

\* json.loads(s): "value" where it returns, else the exception it raises
JsonLoads(s) ==
    LET e == ScanOnce(s, SkipWs(s, 1), 0)
    IN  IF e = -1 THEN "RecursionError"
        ELSE IF e # 0 /\ SkipWs(s, e) = Len(s) + 1 THEN "value"
        ELSE "JSONDecodeError"

(***************************************************************************)
(* The literals of the program.                                            *)
(***************************************************************************)
\* '.json.gz', '.gz' and '.html'
JsonGz == <<".", "j", "s", "o", "n", ".", "g", "z">>
Gz == <<".", "g", "z">>
Html == <<".", "h", "t", "m", "l">>

\* the backquote character (written as a name: the parser pairs a backquote
\* with a later quote, also inside a string)
BackQuote == "BACKQUOTE"

\* start_marker (line 76): allActions = BACKQUOTE NEWLINE
start_marker ==
    <<"a", "l", "l", "A", "c", "t", "i", "o", "n", "s", " ", "=", " ", BackQuote, "\n">>

\* end_marker (line 77): NEWLINE, four spaces, BACKQUOTE, then
\* .trim().split(QUOTE BACKSLASH n QUOTE).map(s => JSON.parse(s))
end_marker ==
    <<"\n", " ", " ", " ", " ", BackQuote, ".", "t", "r", "i", "m", "(", ")", ".",
      "s", "p", "l", "i", "t", "(", "'", "\\", "n", "'", ")", ".",
      "m", "a", "p", "(", "s", " ", "=", ">", " ",
      "J", "S", "O", "N", ".", "p", "a", "r", "s", "e", "(", "s", ")", ")">>

(***************************************************************************)
(* Paths (os.path on POSIX).                                               *)
(***************************************************************************)
\* the 1-based index of the last "/" of p, or 0
LastSlash(p) ==
    LET at == {i \in 1..Len(p) : p[i] = "/"}
    IN  IF at = {} THEN 0 ELSE CHOOSE i \in at : \A j \in at : j <= i

\* os.path.basename(p)
Basename(p) == SubSeq(p, LastSlash(p) + 1, Len(p))

\* os.path.dirname(p), for the paths of the model (no repeated or trailing slash)
Dirname(p) == SubSeq(p, 1, LastSlash(p) - 1)

\* os.path.join(a, b)
PathJoin(a, b) ==
    IF b # <<>> /\ Head(b) = "/" THEN b
    ELSE IF a = <<>> \/ a[Len(a)] = "/" THEN a \o b
    ELSE a \o <<"/">> \o b

(***************************************************************************)
(* The filesystem.  A file is [kind, text]: kind "gzip" is a gzip stream   *)
(* whose decompressed text is text, kind "text" is a UTF-8 text file.  The *)
(* directories are fixed: the program creates and removes none.            *)
(***************************************************************************)
InputDir == <<"i">>
OtherDir == <<"o">>
MissingDir == <<"x">>
Dirs == {InputDir, OtherDir}

GzipFile(text) == [kind |-> "gzip", text |-> text]
TextFile(text) == [kind |-> "text", text |-> text]

\* gzip.open(path, 'rt', encoding='utf-8') read to the end: the text, or None
\* where it raises (no such file, not a gzip stream); an empty file reads as ''
GzipRead(files, path) ==
    IF path \notin DOMAIN files THEN None
    ELSE IF files[path].kind = "gzip" THEN Some(files[path].text)
    ELSE IF files[path].text = <<>> THEN Some(<<>>)
    ELSE None

\* open(path, 'r', encoding='utf-8').read(): the text, or None where it raises
\* (no such file; a gzip stream starts with the bytes 1f 8b, which is not UTF-8)
TextRead(files, path) ==
    IF path \notin DOMAIN files THEN None
    ELSE IF files[path].kind = "text" THEN Some(files[path].text)
    ELSE None

\* open(path, 'w') succeeds where the directory of path exists
CanWrite(path) == Dirname(path) \in Dirs

\* the filesystem after open(path, 'w').write(text)
WriteFile(files, path, text) ==
    [p \in DOMAIN files \cup {path} |-> IF p = path THEN TextFile(text) ELSE files[p]]

\* the filesystem after os.remove(path)
RemoveFile(files, path) == [p \in DOMAIN files \ {path} |-> files[p]]

(***************************************************************************)
(* extract_mjai_log                                                        *)
(***************************************************************************)
\* lines 33-41: the stripped line is kept when it is not empty and json.loads
\* returns; it is skipped when it is empty or json.loads raises JSONDecodeError
KeepLine(line) == line # <<>> /\ JsonLoads(line) = "value"

\* lines 36-39 and 45: json.loads(line) raises an exception the inner except
\* clause does not name, which ends the loop in the outer handler
Escapes(line) == line # <<>> /\ JsonLoads(line) \notin {"value", "JSONDecodeError"}

\* lines 31-41: the kept lines of the text, stripped, in file order
RECURSIVE KeptLines(_)
KeptLines(raw) ==
    IF raw = <<>> THEN <<>>
    ELSE LET line == Strip(Head(raw))
         IN  (IF KeepLine(line) THEN <<line>> ELSE <<>>) \o KeptLines(Tail(raw))

\* the value extract_mjai_log(json_gz_path) returns: the payload, or None
extract_mjai_log(files, json_gz_path) ==
    LET f == GzipRead(files, json_gz_path)
    IN  IF f.none THEN None
        ELSE LET raw == FileLines(f.val)
             IN  IF \E k \in 1..Len(raw) : Escapes(Strip(raw[k])) THEN None
                 ELSE Some(JoinNl(KeptLines(raw)))

(***************************************************************************)
(* generate_html_file                                                      *)
(***************************************************************************)
\* lines 87-90: new_content from the template and the two marker positions
Splice(template_content, start_pos, end_pos, mjai_data) ==
    SliceTo(template_content, start_pos + Len(start_marker))
    \o mjai_data \o SliceFrom(template_content, end_pos)

\* line 94: html_name
HtmlName(json_gz_name) == Replace(json_gz_name, JsonGz, Html)

\* lines 93-99: output_path; output_dir is None or Some(directory)
OutputPath(json_gz_path, output_dir) ==
    PathJoin(IF output_dir.none THEN Dirname(json_gz_path) ELSE output_dir.val,
             HtmlName(Basename(json_gz_path)))

\* generate_html_file(json_gz_path, template_path, output_dir) on the
\* filesystem files: the value returned (ret), the filesystem afterwards,
\* and the values the call computed on the way
generate_html_file(files, json_gz_path, template_path, output_dir) ==
    LET mjai_data == extract_mjai_log(files, json_gz_path)
        template == TextRead(files, template_path)
        start_pos == Find(template.val, start_marker)
        end_pos == Find(template.val, end_marker)
        output_path == OutputPath(json_gz_path, output_dir)
        new_content == Splice(template.val, start_pos, end_pos, mjai_data.val)
        failed == [ret |-> None, files |-> files, json_gz_path |-> json_gz_path,
                   mjai_data |-> mjai_data, template |-> None,
                   new_content |-> <<>>]
    IN  IF mjai_data.none THEN failed
        ELSE IF template.none THEN failed
        ELSE IF start_pos = -1 \/ end_pos = -1
             THEN [failed EXCEPT !.template = template]
        ELSE IF ~CanWrite(output_path)
             THEN [failed EXCEPT !.template = template]
        ELSE [ret |-> Some(output_path),
              files |-> WriteFile(files, output_path, new_content),
              json_gz_path |-> json_gz_path,
              mjai_data |-> mjai_data, template |-> template,
              new_content |-> new_content]

(***************************************************************************)
(* process_directory and main                                              *)
(***************************************************************************)
\* lines 131-135: the selection pattern passes the safety check
PatternIsSafe_NoCheck(pattern) == TRUE
PatternIsSafe(pattern) == EndsWith(pattern, JsonGz) \/ EndsWith(pattern, Gz)

\* Path.glob for the patterns of the model, "*" followed by literal text: the
\* name matches when it ends with that text
GlobMatches(pattern, name) ==
    /\ pattern # <<>>
    /\ Head(pattern) = "*"
    /\ EndsWith(name, Tail(pattern))

\* line 137: the paths input_path.glob(pattern) yields, as a set (the order of
\* the enumeration is the directory's, any order)
GlobSet(files, input_dir, pattern) ==
    {p \in DOMAIN files : Dirname(p) = input_dir /\ GlobMatches(pattern, Basename(p))}

\* the orderings of a finite set of paths
Orderings(S) ==
    {q \in [1..Cardinality(S) -> S] : \A i, j \in 1..Cardinality(S) : q[i] = q[j] => i = j}

\* lines 149-150: generated_files after one call returned html_file
Accumulate_AbortOnFailure(generated, html_file) ==
    IF html_file.none THEN <<>> ELSE Append(generated, html_file.val)
Accumulate(generated, html_file) ==
    IF ~html_file.none /\ html_file.val # <<>>
    THEN Append(generated, html_file.val) ELSE generated

\* line 193: the limit step runs
LimitApplies(limit, generated) ==
    /\ ~limit.none
    /\ limit.val # 0
    /\ Len(generated) > limit.val

\* lines 195-202: the filesystem and the paths removed, after the loop over
\* excess (generated_files[args.limit:])
RECURSIVE RemoveExcess(_, _, _)
RemoveExcess(files, excess, done) ==
    IF excess = <<>> THEN [files |-> files, removed |-> done]
    ELSE LET file_path == Head(excess)
         IN  IF EndsWith(file_path, Html) /\ file_path \in DOMAIN files
             THEN RemoveExcess(RemoveFile(files, file_path), Tail(excess),
                               Append(done, file_path))
             ELSE RemoveExcess(files, Tail(excess), done)

(***************************************************************************)
(* State.                                                                  *)
(***************************************************************************)
VARIABLES
    fs,               \* the filesystem: path -> file
    argv,             \* args: input, template, output, pattern, limit
    pc,               \* where the run is: start, loop, limit, done; gen; extract
    json_gz_files,    \* process_directory: the enumeration of matched archives
    generated_files,  \* process_directory and main: the result set
    exit_code,        \* the exit status of main once pc = "done"
    calls,            \* history: one record per generate_html_file call returned
    removed,          \* history: the paths os.remove was applied to, in order
    fs0,              \* history: the filesystem before the run
    given,            \* SpecExtract: the raw lines the archive was written from
    mjai_data         \* SpecExtract: the value extract_mjai_log returned

vars == <<fs, argv, pc, json_gz_files, generated_files, exit_code, calls,
          removed, fs0, given, mjai_data>>

(***************************************************************************)
(* The inputs the model draws from.                                        *)
(***************************************************************************)
\* archive names: a.json.gz, a.html.json.gz, a.json.gz.json.gz, a.gz, t.json.gz
NameA == <<"a">> \o JsonGz
NameHJ == <<"a">> \o Html \o JsonGz
NameJJ == <<"a">> \o JsonGz \o JsonGz
NameG == <<"a">> \o Gz
NameT == <<"t">> \o JsonGz
BatchNames == {NameA, NameHJ, NameJJ, NameG}
AllNames == BatchNames \cup {NameT}

InDir(name) == PathJoin(InputDir, name)

\* the template path: i/t.html
TemplatePath == InDir(<<"t">> \o Html)

\* the text of a readable archive: two records and a malformed line
GoodText == <<"[", "1", "]", "\n", "[", "\n", "[", "]", "\n">>
\* file contents of the batch: a readable archive, or a file that is no gzip
BatchContents == {GzipFile(GoodText), TextFile(<<"x">>)}

\* templates: both markers in order; the start marker's newline shared with
\* the end marker; the end marker first; one marker missing
TGood == <<"<">> \o start_marker \o <<"x">> \o end_marker \o <<">">>
TOverlap ==
    <<"<">> \o SubSeq(start_marker, 1, Len(start_marker) - 1) \o end_marker \o <<">">>
TReversed == <<"<">> \o end_marker \o <<"y">> \o start_marker \o <<">">>
TNoStart == <<"<">> \o end_marker \o <<">">>
TNoEnd == <<"<">> \o start_marker \o <<">">>
BatchTemplates == {TGood, TNoEnd}
AllTemplates == {TGood, TOverlap, TReversed, TNoStart, TNoEnd}

\* --output: absent, an existing directory, a directory that does not exist
Outputs == {None, Some(OtherDir), Some(MissingDir)}

\* --pattern: *.json.gz (the default), *.gz, and * (which matches every name)
DefaultPattern == <<"*">> \o JsonGz
Patterns == {DefaultPattern, <<"*">> \o Gz, <<"*">>}

\* --limit: absent (args.limit is None), or an integer
NoLimit == [none |-> TRUE, val |-> 0]
Limits == {NoLimit} \cup {Some(n) : n \in -1..MaxFiles}

\* the filesystems: at most MaxFiles files in the input directory, and the
\* template present or not
FileSystems(names, contents, templates) ==
    UNION {
      UNION {
        {[p \in {InDir(n) : n \in chosen} \cup tp |->
            IF p \in tp THEN TextFile(t) ELSE c[p]] :
          c \in [{InDir(n) : n \in chosen} -> contents]} :
        chosen \in {S \in SUBSET names : Cardinality(S) <= MaxFiles}} :
      <<tp, t>> \in ({{TemplatePath}} \X templates) \cup {<<{}, <<>>>>}}

Args(input, output, pattern, limit) ==
    [input |-> input, template |-> TemplatePath, output |-> output,
     pattern |-> pattern, limit |-> limit]

NoCalls == <<>>

(***************************************************************************)
(* main: the run of the tool.                                              *)
(***************************************************************************)
Init ==
    /\ fs \in FileSystems(BatchNames, BatchContents, BatchTemplates)
    /\ \/ argv \in {Args(InputDir, o, p, l) :
                      o \in Outputs, p \in Patterns, l \in Limits}
       \/ argv \in {Args(i, o, DefaultPattern, NoLimit) :
                      i \in {InDir(n) : n \in BatchNames} \cup {MissingDir},
                      o \in Outputs}
    /\ pc = "start"
    /\ json_gz_files = <<>>
    /\ generated_files = <<>>
    /\ exit_code = 0
    /\ calls = NoCalls
    /\ removed = <<>>
    /\ fs0 = fs
    /\ given = <<>>
    /\ mjai_data = None

\* os.path.isfile and os.path.isdir
IsFile(path) == path \in DOMAIN fs
IsDir(path) == path \in Dirs

Exit(code) ==
    /\ pc' = "done"
    /\ exit_code' = code

\* lines 172-174: the template does not exist
MainTemplateMissing ==
    /\ pc = "start"
    /\ argv.template \notin DOMAIN fs
    /\ Exit(1)
    /\ UNCHANGED <<fs, argv, json_gz_files, generated_files, calls, removed,
                   fs0, given, mjai_data>>

\* lines 176-187: single-file mode
MainSingleFile ==
    /\ pc = "start"
    /\ argv.template \in DOMAIN fs
    /\ IsFile(argv.input)
    /\ IF ~EndsWith(argv.input, JsonGz)
       THEN /\ Exit(1)
            /\ UNCHANGED <<fs, calls>>
       ELSE LET r == generate_html_file(fs, argv.input, argv.template, argv.output)
            IN  /\ fs' = r.files
                /\ calls' = Append(calls, [r EXCEPT !.files = 0])
                /\ Exit(IF ~r.ret.none /\ r.ret.val # <<>> THEN 0 ELSE 1)
    /\ UNCHANGED <<argv, json_gz_files, generated_files, removed, fs0, given,
                   mjai_data>>

\* lines 207-209: the input is neither a file nor a directory
MainInputInvalid ==
    /\ pc = "start"
    /\ argv.template \in DOMAIN fs
    /\ ~IsFile(argv.input)
    /\ ~IsDir(argv.input)
    /\ Exit(1)
    /\ UNCHANGED <<fs, argv, json_gz_files, generated_files, calls, removed,
                   fs0, given, mjai_data>>

\* lines 189-191 and 127-143: directory mode enters process_directory, which
\* checks the pattern and enumerates; with nothing to process it returns at once
ProcessDirectoryBegin ==
    /\ pc = "start"
    /\ argv.template \in DOMAIN fs
    /\ ~IsFile(argv.input)
    /\ IsDir(argv.input)
    /\ generated_files' = <<>>
    /\ IF ~PatternIsSafe(argv.pattern)
       THEN /\ json_gz_files' = <<>>
            /\ pc' = "limit"
       ELSE \E q \in Orderings(GlobSet(fs, argv.input, argv.pattern)) :
              /\ json_gz_files' = q
              /\ pc' = IF q = <<>> THEN "limit" ELSE "loop"
    /\ UNCHANGED <<fs, argv, exit_code, calls, removed, fs0, given, mjai_data>>

\* lines 145-152: one iteration of the loop of process_directory; after the
\* last one process_directory returns generated_files to main
ProcessArchive ==
    /\ pc = "loop"
    /\ LET json_gz_file == json_gz_files[Len(calls) + 1]
           r == generate_html_file(fs, json_gz_file, argv.template, argv.output)
       IN  /\ fs' = r.files
           /\ calls' = Append(calls, [r EXCEPT !.files = 0])
           /\ generated_files' = Accumulate(generated_files, r.ret)
           /\ pc' = IF Len(calls) + 1 = Len(json_gz_files) THEN "limit" ELSE "loop"
    /\ UNCHANGED <<argv, json_gz_files, exit_code, removed, fs0, given, mjai_data>>

\* lines 193-205: limit enforcement and the final report
MainLimit ==
    /\ pc = "limit"
    /\ IF LimitApplies(argv.limit, generated_files)
       THEN LET r == RemoveExcess(fs, SliceFrom(generated_files, argv.limit.val), <<>>)
            IN  /\ fs' = r.files
                /\ removed' = r.removed
                /\ generated_files' = SliceTo(generated_files, argv.limit.val)
       ELSE UNCHANGED <<fs, removed, generated_files>>
    /\ Exit(0)
    /\ UNCHANGED <<argv, json_gz_files, calls, fs0, given, mjai_data>>

Next ==
    \/ MainTemplateMissing
    \/ MainSingleFile
    \/ MainInputInvalid
    \/ ProcessDirectoryBegin
    \/ ProcessArchive
    \/ MainLimit

Spec == Init /\ [][Next]_vars

(***************************************************************************)
(* generate_html_file called twice with the same arguments.                *)
(***************************************************************************)
\* archives of the repeated call: no line, records and a malformed line, only
\* a malformed line, and a file that is no gzip
GenContents ==
    {GzipFile(<<>>), GzipFile(GoodText), GzipFile(<<"[", "\n">>), TextFile(<<"x">>)}

InitGen ==
    /\ \E n \in AllNames, c \in GenContents, tp \in SUBSET {TemplatePath},
          t \in AllTemplates, o \in Outputs :
         /\ t = TGood \/ tp # {}
         /\ fs = [p \in {InDir(n)} \cup tp |-> IF p \in tp THEN TextFile(t) ELSE c]
         /\ argv = Args(InDir(n), o, DefaultPattern, NoLimit)
    /\ pc = "gen"
    /\ json_gz_files = <<>>
    /\ generated_files = <<>>
    /\ exit_code = 0
    /\ calls = NoCalls
    /\ removed = <<>>
    /\ fs0 = fs
    /\ given = <<>>
    /\ mjai_data = None

\* one call generate_html_file(argv.input, argv.template, argv.output)
GenerateCall ==
    /\ pc = "gen"
    /\ LET r == generate_html_file(fs, argv.input, argv.template, argv.output)
       IN  /\ fs' = r.files
           /\ calls' = Append(calls, [r EXCEPT !.files = 0])
           /\ pc' = IF Len(calls) + 1 = 2 THEN "done" ELSE "gen"
    /\ UNCHANGED <<argv, json_gz_files, generated_files, exit_code, removed,
                   fs0, given, mjai_data>>

NextGen == GenerateCall

SpecGen == InitGen /\ [][NextGen]_vars

(***************************************************************************)
(* extract_mjai_log applied to one archive.                                *)
(***************************************************************************)
\* raw lines (without their line ending): blank, valid with and without
\* surrounding whitespace, nested to the recursion limit and beyond it, and
\* malformed ones, two of which joined are valid
RawLinePool ==
    { <<>>, <<" ">>, <<"[", "1", "]">>, <<" ", "[", "1", ",", " ", "1", "]", " ">>,
      <<"[", "[", "1", "]", "]">>, <<"[", "[", "[", "1", "]", "]", "]">>,
      <<"[", "1">>, <<"]">>, <<"[", "1", ",", "]">> }

RECURSIVE SeqsUpTo(_, _)
SeqsUpTo(S, n) ==
    IF n = 0 THEN {<<>>}
    ELSE LET shorter == SeqsUpTo(S, n - 1)
         IN  shorter \cup {Append(q, x) : q \in shorter, x \in S}

ArchivePath == InDir(NameA)

InitExtract ==
    /\ \E lines \in SeqsUpTo(RawLinePool, MaxLines), nl \in BOOLEAN, gz \in BOOLEAN :
         /\ given = lines
         /\ gz \/ (lines = <<>> /\ nl)
         /\ LET text == JoinNl(lines) \o (IF nl THEN <<"\n">> ELSE <<>>)
            IN  fs = [p \in {ArchivePath} |->
                        IF gz THEN GzipFile(text) ELSE TextFile(text)]
    /\ argv = Args(ArchivePath, None, DefaultPattern, NoLimit)
    /\ pc = "extract"
    /\ json_gz_files = <<>>
    /\ generated_files = <<>>
    /\ exit_code = 0
    /\ calls = NoCalls
    /\ removed = <<>>
    /\ fs0 = fs
    /\ mjai_data = None

\* the call extract_mjai_log(argv.input)
ExtractCall ==
    /\ pc = "extract"
    /\ mjai_data' = extract_mjai_log(fs, argv.input)
    /\ pc' = "done"
    /\ UNCHANGED <<fs, argv, json_gz_files, generated_files, exit_code, calls,
                   removed, fs0, given>>

NextExtract == ExtractCall

SpecExtract == InitExtract /\ [][NextExtract]_vars

(***************************************************************************)
(* Properties.                                                             *)
(***************************************************************************)
\* the run is in directory mode and has entered process_directory
DirectoryMode ==
    /\ argv.input \in Dirs
    /\ argv.input \notin DOMAIN fs0
    /\ argv.template \in DOMAIN fs0
    /\ pc \in {"loop", "limit", "done"}

\* the output paths of the calls that returned one, in call order
RECURSIVE SuccessPaths(_)
SuccessPaths(cs) ==
    IF cs = <<>> THEN <<>>
    ELSE (IF Head(cs).ret.none THEN <<>> ELSE <<Head(cs).ret.val>>)
         \o SuccessPaths(Tail(cs))

\* C3: in directory mode with a selection pattern that does not end in
\* '.gz', process_directory returns an empty result set and the run writes
\* no file and deletes none, whatever the directory, output and limit are.
C3_SafetyGuard ==
    (DirectoryMode /\ ~EndsWith(argv.pattern, Gz)) =>
        /\ generated_files = <<>>
        /\ json_gz_files = <<>>
        /\ calls = NoCalls
        /\ removed = <<>>
        /\ fs = fs0

\* C3 witness: a finished directory run with the pattern *, files it would
\* match, and a limit below the size of the (empty) result set
C3_Witness ==
    /\ DirectoryMode
    /\ pc = "done"
    /\ ~EndsWith(argv.pattern, Gz)
    /\ Cardinality(GlobSet(fs0, argv.input, argv.pattern)) >= 2
    /\ ~argv.limit.none
    /\ argv.limit.val = -1

\* C9: process_directory calls generate_html_file once per matched archive,
\* in enumeration order, a failed call does not end the batch, and the
\* result set is the output paths of the calls that succeeded, in order.
C9_BatchDrive ==
    DirectoryMode =>
        /\ Len(calls) <= Len(json_gz_files)
        /\ \A k \in 1..Len(calls) : calls[k].json_gz_path = json_gz_files[k]
        /\ \A j, k \in 1..Len(json_gz_files) :
             json_gz_files[j] = json_gz_files[k] => j = k
        /\ PatternIsSafe(argv.pattern) =>
             {json_gz_files[k] : k \in 1..Len(json_gz_files)}
               = GlobSet(fs0, argv.input, argv.pattern)
        /\ pc \in {"limit", "done"} => Len(calls) = Len(json_gz_files)
        /\ pc \in {"loop", "limit"} => generated_files = SuccessPaths(calls)

\* C9 witness: process_directory has returned after a failed call followed by
\* a successful one
C9_Witness ==
    /\ DirectoryMode
    /\ pc = "limit"
    /\ Len(calls) = 2
    /\ calls[1].ret.none
    /\ ~calls[2].ret.none
    /\ generated_files = <<calls[2].ret.val>>

\* s.split('\n'), with no line for the empty text
RECURSIVE SplitNl(_)
SplitNl(s) ==
    IF s = <<>> THEN <<>>
    ELSE LET p == Find(s, <<"\n">>)
         IN  IF p = -1 THEN <<s>>
             ELSE <<SubSeq(s, 1, p)>> \o
                  (IF p + 1 = Len(s) THEN <<<<>>>>
                   ELSE SplitNl(SubSeq(s, p + 2, Len(s))))

\* the raw lines of the archive, stripped
StrippedGiven == [k \in 1..Len(given) |-> Strip(given[k])]

\* a stripped line that is a record: not blank, and json.loads returns a value
IsRecord(line) == line # <<>> /\ JsonLoads(line) = "value"

\* C8: for a readable archive extract_mjai_log returns the stripped,
\* non-blank lines that parse, verbatim and in file order, joined by single
\* newlines; every payload line parses, no dropped line is in the payload,
\* and no payload line is made of more than one line of the archive.
C8_ValidatedPayload ==
    (pc = "done" /\ fs[ArchivePath].kind = "gzip") =>
        /\ ~mjai_data.none
        /\ LET payload == SplitNl(mjai_data.val)
           IN  /\ payload = SelectSeq(StrippedGiven, IsRecord)
               /\ \A k \in 1..Len(payload) : IsRecord(payload[k])
               /\ \A k \in 1..Len(payload), j \in 1..Len(given) :
                    ~IsRecord(StrippedGiven[j]) => payload[k] # StrippedGiven[j]
               /\ \A k \in 1..Len(payload) :
                    \E j \in 1..Len(given) : payload[k] = StrippedGiven[j]

\* C1: no archive handed to generate_html_file is mutated or deleted: its
\* path still holds the contents it had before the run, and the output path
\* a Report was written to is never the path of a handed archive.
C1_ArchivesUntouched ==
    \A k \in 1..Len(calls) :
        LET p == calls[k].json_gz_path
        IN  /\ p \in DOMAIN fs
            /\ fs[p] = fs0[p]
            /\ \A j \in 1..Len(calls) :
                 ~calls[j].ret.none => calls[j].ret.val # p

\* the number of Reports process_directory generated
Generated == Len(SuccessPaths(calls))

\* C2: in a finished directory run that generated N Reports with a limit L,
\* 0 <= L < N, exactly N-L files were deleted, each ending in '.html', and
\* the reported result set has exactly L entries.
C2_LimitTruncation ==
    (/\ DirectoryMode
     /\ pc = "done"
     /\ ~argv.limit.none
     /\ 0 <= argv.limit.val
     /\ argv.limit.val < Generated) =>
        /\ Len(removed) = Generated - argv.limit.val
        /\ \A k \in 1..Len(removed) :
             EndsWith(removed[k], Html) /\ removed[k] \notin DOMAIN fs
        /\ Len(generated_files) = argv.limit.val

\* C10: at the end of a directory run every path of the reported result set
\* names a file that exists, and the entries are pairwise distinct.
C10_ResultSetExists ==
    (DirectoryMode /\ pc = "done") =>
        /\ \A k \in 1..Len(generated_files) : generated_files[k] \in DOMAIN fs
        /\ \A j, k \in 1..Len(generated_files) :
             generated_files[j] = generated_files[k] => j = k

\* C6: the output file name of a successful call is the archive's base name
\* with its trailing '.json.gz' replaced by '.html' and nothing else
\* rewritten; a call on a base name that does not end in '.json.gz' fails.
C6_OutputNaming ==
    \A k \in 1..Len(calls) :
        LET name == Basename(calls[k].json_gz_path)
        IN  IF EndsWith(name, JsonGz)
            THEN ~calls[k].ret.none =>
                   Basename(calls[k].ret.val)
                     = SubSeq(name, 1, Len(name) - Len(JsonGz)) \o Html
            ELSE calls[k].ret.none

\* the template file of the filesystem files is usable: readable text with
\* both markers, the first start marker ending before the first end marker
Usable(files, template_path) ==
    /\ template_path \in DOMAIN files
    /\ files[template_path].kind = "text"
    /\ LET t == files[template_path].text
       IN  /\ Find(t, start_marker) # -1
           /\ Find(t, end_marker) # -1
           /\ Find(t, start_marker) + Len(start_marker) <= Find(t, end_marker)

\* C5: generate_html_file fails and writes nothing on a template that lacks
\* a marker or whose start marker does not come before its end marker; it
\* succeeds only on templates with both markers, the start marker first.
C5_TemplateUsability ==
    (Len(calls) >= 1 /\ ~Usable(fs0, argv.template)) =>
        /\ calls[1].ret.none
        /\ Len(calls) = 1 => fs = fs0

\* C4: the Report of a successful call is the template up to and including
\* the first start marker, the payload, and the template from the first end
\* marker on; outside the span between the two markers it is the template,
\* with no character of the template lost, duplicated or reordered.
C4_MarkerPreservation ==
    \A k \in 1..Len(calls) :
        ~calls[k].ret.none =>
            LET t == calls[k].template.val
                payload == calls[k].mjai_data.val
                report == calls[k].new_content
                b == Find(t, start_marker) + Len(start_marker)
                e == Find(t, end_marker)
            IN  /\ Len(report) = b + Len(payload) + (Len(t) - e)
                /\ SubSeq(report, 1, b) = SubSeq(t, 1, b)
                /\ SubSeq(report, b + 1, b + Len(payload)) = payload
                /\ SubSeq(report, b + Len(payload) + 1, Len(report))
                     = SubSeq(t, e + 1, Len(t))
                /\ k = Len(calls) => fs[calls[k].ret.val] = TextFile(report)
                /\ \E i, j \in 0..Len(t) :
                     /\ i <= j
                     /\ report = SubSeq(t, 1, i) \o payload \o SubSeq(t, j + 1, Len(t))

\* C7: two calls of generate_html_file with the same arguments both succeed
\* or both fail, and the second writes the same bytes as the first.
C7_Idempotence ==
    Len(calls) = 2 =>
        /\ calls[1].ret.none <=> calls[2].ret.none
        /\ ~calls[1].ret.none =>
             /\ calls[1].ret = calls[2].ret
             /\ calls[1].new_content = calls[2].new_content

====
